---------------------------- MODULE Spec2Model ----------------------------
(***************************************************************************)
(* Git Quest: the lesson / quiz / boss progression engine.                 *)
(*                                                                         *)
(*   GitTrainPage  (src/src/app/games/git-quest-train/page.jsx)            *)
(*       lines 1189-1793  the clean deduped version      version "clean"   *)
(*       lines    1-651   the AAA pass version           version "aaa"     *)
(*       lines  652-1188  the realistic version          version "realistic" *)
(*   GitQuest3D    (src/unnamed/part_000)                the gq* variables *)
(*                                                                         *)
(* React is modelled at the grain of one event: a click handler, a timer   *)
(* callback or an effect flush runs to completion, its state updaters are  *)
(* applied in the order queued, the tree is rendered again, components no  *)
(* longer rendered lose their local state, and the persist effects whose   *)
(* dependency changed run.  A closure (a setTimeout callback) keeps the    *)
(* values of the render that created it.                                   *)
(***************************************************************************)
EXTENDS Integers, Sequences, FiniteSets, TLC

(***************************************************************************)
(* JavaScript values.  A value carries its type so that ===, ||, ?. and +  *)
(* can be computed the way JavaScript computes them.  A string is the      *)
(* sequence of its characters.                                             *)
(***************************************************************************)
Null == [t |-> "null"]
Undef == [t |-> "undef"]
Num(n) == [t |-> "num", v |-> n]
Str(s) == [t |-> "str", v |-> s]

\* a === b
StrictEq(a, b) ==
    /\ a.t = b.t
    /\ (a.t \in {"num", "str"} => a.v = b.v)

\* the truthiness of a value: null, undefined, 0 and "" are falsy
Truthy(a) ==
    CASE a.t \in {"null", "undef"} -> FALSE
      [] a.t = "num" -> a.v # 0
      [] a.t = "str" -> a.v # <<>>
      [] OTHER -> TRUE

\* a ?? b
Coalesce(a, b) == IF a.t \in {"null", "undef"} THEN b ELSE a

\* String.prototype.toLowerCase over the alphabet used by the content
LowerChar(c) ==
    CASE c = "I" -> "i"
      [] c = "N" -> "n"
      [] c = "T" -> "t"
      [] OTHER -> c
toLowerCase(s) == [k \in 1..Len(s) |-> LowerChar(s[k])]

\* String.prototype.trim: leading and trailing blanks removed
RECURSIVE trimStart(_)
trimStart(s) == IF s # <<>> /\ Head(s) = " " THEN trimStart(Tail(s)) ELSE s
RECURSIVE trimEnd(_)
trimEnd(s) ==
    IF s # <<>> /\ s[Len(s)] = " " THEN trimEnd(SubSeq(s, 1, Len(s) - 1)) ELSE s
trim(s) == trimEnd(trimStart(s))

\* Number.prototype.toString for a natural number
DigitChars == <<"0", "1", "2", "3", "4", "5", "6", "7", "8", "9">>
RECURSIVE NumToString(_)
NumToString(n) ==
    IF n < 10 THEN <<DigitChars[n + 1]>>
    ELSE NumToString(n \div 10) \o <<DigitChars[(n % 10) + 1]>>

\* a + n for a number n: numeric addition, or concatenation when a is a string
JSAdd(a, n) ==
    IF a.t = "num" THEN Num(a.v + n) ELSE Str(a.v \o NumToString(n))

\* a >= n: a string that is not numeric compares false
JSGeq(a, n) == a.t = "num" /\ a.v >= n

(***************************************************************************)
(* Bounds of the model.                                                    *)
(***************************************************************************)
\* awards are offered while xp is at most MaxXP
MaxXP == 100
\* pending setTimeout callbacks
MaxTimers == 2

(***************************************************************************)
(* Chapter content: the input read from ch1.json .. ch10.json.             *)
(***************************************************************************)
NumChapters == 10
ChapterIdx == 0..(NumChapters - 1)

S_init == <<"i", "n", "i", "t">>
S_Init_padded == <<" ", "I", "n", "i", "t", " ">>
S_wrong == <<"x">>

\* a "mcq" question with three options, and a "blank" question
Mcq(answer, points) ==
    [t |-> "obj", type |-> "mcq", nopts |-> 3, answer |-> answer,
     answerText |-> Undef, xp |-> points]
Blank(answerText, points) ==
    [t |-> "obj", type |-> "blank", nopts |-> 0, answer |-> Undef,
     answerText |-> answerText, xp |-> points]
TopicOf(quiz) == [t |-> "obj", quiz |-> quiz]
BossOf(questions) == [t |-> "obj", questions |-> questions]
ChapterOf(topics, boss) == [t |-> "obj", topics |-> topics, boss |-> boss]
ArrayOf(s) == [t |-> "arr", v |-> s]

\* Content[i + 1] is the default export of ch{i+1}.json, or Undef when the
\* import of that file fails.
Content ==
    << \* ch1: three topics (mcq quiz, blank quiz, no quiz), a boss of two
       ChapterOf(ArrayOf(<< TopicOf(Mcq(Num(2), Num(40))),
                            TopicOf(Blank(Str(S_init), Undef)),
                            TopicOf(Undef) >>),
                 BossOf(ArrayOf(<< Mcq(Num(1), Undef),
                                   Blank(Str(S_init), Undef) >>))),
       \* ch2: one topic without a quiz, a boss of one
       ChapterOf(ArrayOf(<< TopicOf(Undef) >>),
                 BossOf(ArrayOf(<< Mcq(Num(0), Undef) >>))),
       \* ch3: one topic without a quiz, a boss of one
       ChapterOf(ArrayOf(<< TopicOf(Undef) >>),
                 BossOf(ArrayOf(<< Mcq(Num(0), Undef) >>))),
       \* ch4: one topic with a quiz (answer index 2, xp 40), no boss
       ChapterOf(ArrayOf(<< TopicOf(Mcq(Num(2), Num(40))) >>), Undef),
       \* ch5: one topic without a quiz, a boss without questions
       ChapterOf(ArrayOf(<< TopicOf(Undef) >>), BossOf(ArrayOf(<<>>))),
       \* ch6: the file is missing
       Undef,
       \* ch7: no topics, no boss
       ChapterOf(Undef, Undef),
       Undef, Undef, Undef >>

\* what the learner may select or type
McqChoices(q) == {Num(k) : k \in 0..(q.nopts - 1)}
TypedTexts == {Str(S_Init_padded), Str(S_wrong)}

\* chapter.topics?.[i] || null
TopicAt(chapter, i) ==
    IF chapter.topics.t = "arr" /\ i + 1 \in 1..Len(chapter.topics.v)
    THEN chapter.topics.v[i + 1] ELSE Null
\* chapter.topics.length, for a chapter whose topics are an array
TopicCount(chapter) == Len(chapter.topics.v)
\* boss.questions?.[i]
QuestionAt(boss, i) ==
    IF boss.questions.t = "arr" /\ i + 1 \in 1..Len(boss.questions.v)
    THEN boss.questions.v[i + 1] ELSE Undef
\* a variant that counts one question less
QuestionCountShort(boss) ==
    IF boss.questions.t = "arr" THEN Len(boss.questions.v) - 1 ELSE 0
\* boss.questions?.length ?? 0
QuestionCount(boss) ==
    IF boss.questions.t = "arr" THEN Len(boss.questions.v) ELSE 0

(***************************************************************************)
(* Answer evaluation, the same in QuizPanel.submit and BossPanel.submit.   *)
(***************************************************************************)
\* (answer || "").trim().toLowerCase(); not defined for a truthy non-string
TypedNorm(answer) ==
    IF Truthy(answer) THEN Str(toLowerCase(trim(answer.v))) ELSE Str(<<>>)
\* data.answerText?.toLowerCase()
StoredNorm(answerText) ==
    IF answerText.t = "str" THEN Str(toLowerCase(answerText.v)) ELSE Undef
Evaluate(q, answer) ==
    LET ok1 == IF q.type = "mcq" THEN StrictEq(answer, q.answer) ELSE FALSE
    IN  IF q.type = "blank"
        THEN StrictEq(TypedNorm(answer), StoredNorm(q.answerText))
        ELSE ok1

(***************************************************************************)
(* State.                                                                  *)
(***************************************************************************)
VARIABLES
    version,       \* which GitTrainPage is running: "clean", "aaa", "realistic"
    done,          \* useProgress: the completion flags
    meta,          \* useProgress: xp, coins, streak, badges, settings
    lsProgress,    \* localStorage["gitQuestProgress"]
    lsMeta,        \* localStorage["gitQuestMeta"]
    setItemThrows, \* localStorage.setItem throws (storage full or denied)
    mounted,       \* the mount effects have run
    crashed,       \* an exception escaped a render or an effect
    chapters,      \* useGitChapters: chapters
    loading,       \* useGitChapters: loading
    loaded,        \* useGitChapters: the loop's local array
    panel,         \* GitTrainPage: panel
    showIntro,     \* GitTrainPage: showIntro
    showMaze,      \* GitTrainPage: showMaze
    cells,         \* MergeMazePanel: indices of the cells that are on
    quizAnswer,    \* QuizPanel: answer
    quizFeedback,  \* QuizPanel: feedback ("none", "ok", "wrong")
    bossIdx,       \* BossPanel: idx
    bossAnswer,    \* BossPanel: answer
    timers         \* pending setTimeout(onCorrect) callbacks, oldest first

trainVars ==
    <<version, done, meta, lsProgress, lsMeta, setItemThrows, mounted, crashed,
      chapters, loading, loaded, panel, showIntro, showMaze, cells, quizAnswer,
      quizFeedback, bossIdx, bossAnswer, timers>>

\* GitQuest3D (src/unnamed/part_000)
VARIABLES
    gqChapters,    \* useGitChapters: chapters
    gqLoading,     \* useGitChapters: loading
    gqLoaded,      \* useGitChapters: the loop's local array
    state,         \* GitQuest3D: state ("MAP" or "LESSON")
    current,       \* GitQuest3D: current
    xp,            \* GitQuest3D: xp
    coins,         \* GitQuest3D: coins
    streak,        \* GitQuest3D: streak
    mode,          \* ChapterPanel: mode
    topicIdx,      \* ChapterPanel: topicIdx
    gqAnswer,      \* QuizPanel: answer
    gqFeedback,    \* QuizPanel: feedback ("none", "ok", "wrong")
    gqIdx,         \* BossPanel: idx
    gqBossAnswer,  \* BossPanel: answer
    score,         \* BossPanel: score
    gqTimers       \* pending setTimeout(() => onCorrect(..)) callbacks

gqVars ==
    <<gqChapters, gqLoading, gqLoaded, state, current, xp, coins, streak, mode,
      topicIdx, gqAnswer, gqFeedback, gqIdx, gqBossAnswer, score, gqTimers>>

(***************************************************************************)
(* useProgress: the progress ledger and its persistence.                   *)
(***************************************************************************)
SETTINGS == [sequentialUnlock |-> TRUE]
DefaultDone == [k \in 1..NumChapters |-> FALSE]
DefaultMeta ==
    [xp |-> Num(0), coins |-> Num(0), streak |-> Num(0), badges |-> <<>>,
     settings |-> SETTINGS]

\* localStorage items: no item, the text of a JSON value, or other text
Absent == [t |-> "absent"]
Garbage == [t |-> "garbage"]
JSONstringify(value) == [t |-> "json", v |-> value]
CanParse(item) == item.t = "json"
JSONparse(item) == item.v
ObjectOf(fields) == [t |-> "obj", v |-> fields]

\* a variant that accepts an array of any length
HydrateDoneAnyLength(item, prev) ==
    IF CanParse(item) /\ JSONparse(item).t = "arr" THEN JSONparse(item).v
    ELSE prev

\* the first try block of the hydration effect: the flags that setDone gets,
\* or the flags kept when nothing is stored or the stored value is refused
HydrateDone(item, prev) ==
    IF CanParse(item)
       /\ JSONparse(item).t = "arr"
       /\ Len(JSONparse(item).v) = 10
    THEN JSONparse(item).v
    ELSE prev

\* { ...prev, ...parsed }
Spread(prev, parsed) ==
    IF parsed.t = "obj"
    THEN [f \in (DOMAIN prev) \cup (DOMAIN parsed.v) |->
             IF f \in DOMAIN parsed.v THEN parsed.v[f] ELSE prev[f]]
    ELSE prev
\* the second try block: the updater handed to setMeta, for a stored item
\* that parses (JSON.parse runs inside the updater, outside the try block)
HydrateMeta(item, prev) ==
    IF item.t = "absent" THEN prev ELSE Spread(prev, JSONparse(item))

\* a variant that overwrites coins with the coins of this award
awardXPCoinsOverwritten(m, delta) ==
    [m EXCEPT !.xp = JSAdd(JSAdd(m.xp, delta),
                           IF JSGeq(m.streak, 3) THEN 10 ELSE 0),
              !.coins = Num(delta \div 10),
              !.streak = JSAdd(m.streak, 1)]
awardXP(m, delta) ==
    [m EXCEPT !.xp = JSAdd(JSAdd(m.xp, delta),
                           IF JSGeq(m.streak, 3) THEN 10 ELSE 0),
              !.coins = JSAdd(m.coins, delta \div 10),
              !.streak = JSAdd(m.streak, 1)]
breakStreak(m) == [m EXCEPT !.streak = Num(0)]
Includes(s, x) == \E k \in 1..Len(s) : s[k] = x
grantBadge(m, name) ==
    IF Includes(m.badges, name) THEN m
    ELSE [m EXCEPT !.badges = Append(m.badges, name)]
\* `Chapter ${i+1} Cleared`
ChapterBadge(i) ==
    << "Chapter 1 Cleared", "Chapter 2 Cleared", "Chapter 3 Cleared",
       "Chapter 4 Cleared", "Chapter 5 Cleared", "Chapter 6 Cleared",
       "Chapter 7 Cleared", "Chapter 8 Cleared", "Chapter 9 Cleared",
       "Chapter 10 Cleared" >>[i + 1]
\* a variant that sets the flag of the next chapter
SetFlagOfNext(prev, i) == [prev EXCEPT ![i + 2] = TRUE]
\* the updater handed to setDone by markChapterComplete
SetFlag(prev, i) == [prev EXCEPT ![i + 1] = TRUE]

(***************************************************************************)
(* GitTrainPage: derived values of a render.                               *)
(***************************************************************************)
\* panel.idx = null
NoChapter == -1
ClosedPanel == [open |-> FALSE, idx |-> NoChapter, mode |-> "LESSON", topicIdx |-> 0]
OpenedPanel(i) == [open |-> TRUE, idx |-> i, mode |-> "LESSON", topicIdx |-> 0]

\* (panel.idx != null && chapters[panel.idx]?.data) || null
currentChapter(p, chs) ==
    IF p.idx # NoChapter /\ p.idx + 1 \in 1..Len(chs) /\ Truthy(chs[p.idx + 1].data)
    THEN chs[p.idx + 1].data
    ELSE Null

\* a variant of canOpen that reads the flag of chapter i itself
canOpenOwnFlag(i, flags) == IF i = 0 THEN TRUE ELSE flags[i + 1]

\* a variant without the unlock policy
canOpenAlways(i, flags) == TRUE

canOpen(i, flags) ==
    IF ~SETTINGS.sequentialUnlock THEN TRUE
    ELSE IF i = 0 THEN TRUE
    ELSE flags[(i - 1) + 1]

allComplete(flags) == (\A k \in 1..Len(flags) : flags[k]) /\ Len(flags) = 10

\* which parts of the panel a render shows
ChapterPanelShown(p, chs) == p.open /\ currentChapter(p, chs) # Null
TopicShown(p, chs) == TopicAt(currentChapter(p, chs), p.topicIdx)
LessonShown(p, chs) ==
    ChapterPanelShown(p, chs) /\ p.mode = "LESSON" /\ TopicShown(p, chs) # Null
QuizShown(p, chs) ==
    /\ ChapterPanelShown(p, chs) /\ p.mode = "QUIZ"
    /\ TopicShown(p, chs) # Null
    /\ Truthy(TopicShown(p, chs).quiz)
BossShown(p, chs) ==
    /\ ChapterPanelShown(p, chs) /\ p.mode = "BOSS"
    /\ Truthy(currentChapter(p, chs).boss)
NoTopicsShown(p, chs) ==
    ChapterPanelShown(p, chs) /\ TopicShown(p, chs) = Null /\ p.mode # "BOSS"
NoContentShown(p, chs) == p.open /\ currentChapter(p, chs) = Null
\* BossPanel's early return: "Boss not configured yet."
BossPlaceholderShown(p, chs, idx) ==
    BossShown(p, chs) /\ QuestionAt(currentChapter(p, chs).boss, idx) = Undef

\* a variant that never leaves the lessons for the boss
nextTopicOrBossNoBoss(p, ch, ti, ver) == [p EXCEPT !.mode = "LESSON"]

\* the setPanel call of nextTopicOrBoss, applied to the latest panel p; ch and
\* ti are currentChapter and panel.topicIdx of the render that made the closure
nextTopicOrBoss(p, ch, ti, ver) ==
    LET next == IF ver \in {"aaa", "realistic"} THEN ti + 1 ELSE p.topicIdx + 1
    IN  IF Truthy(ch.topics) /\ next < TopicCount(ch)
        THEN [p EXCEPT !.topicIdx = next, !.mode = "LESSON"]
        ELSE [p EXCEPT !.mode = "BOSS"]

\* award(xp) of ChapterPanel: onAward?.(xp ?? 40)
AwardAmount(x) == Coalesce(x, Num(40)).v

\* MergeMazePanel: cells.every((v,i) => (i % (size+1) === 0) ? v : true)
MazeSize == 5
MazeCellIdx == 0..(MazeSize * MazeSize - 1)
solved(on) == \A i \in MazeCellIdx : (i % (MazeSize + 1) = 0) => i \in on
\* the cells the learner toggles: those on the diagonal (the others do not
\* enter solved)
MazeClicks == {i \in MazeCellIdx : i % (MazeSize + 1) = 0}

(***************************************************************************)
(* What a commit does to component state and to storage.                   *)
(***************************************************************************)
\* QuizPanel's state survives a commit only if QuizPanel is rendered before
\* and after it; otherwise the next QuizPanel starts from useState(null).
QuizKept ==
    /\ quizAnswer' = IF QuizShown(panel, chapters) /\ QuizShown(panel', chapters')
                     THEN quizAnswer ELSE Null
    /\ quizFeedback' = IF QuizShown(panel, chapters) /\ QuizShown(panel', chapters')
                       THEN quizFeedback ELSE "none"
\* a variant in which BossPanel's state outlives the panel (a resume point)
BossKeptAcrossUnmount == bossIdx' = bossIdx /\ bossAnswer' = bossAnswer
BossKept ==
    /\ bossIdx' = IF BossShown(panel, chapters) /\ BossShown(panel', chapters')
                  THEN bossIdx ELSE 0
    /\ bossAnswer' = IF BossShown(panel, chapters) /\ BossShown(panel', chapters')
                     THEN bossAnswer ELSE Null
\* a variant whose meta effect does not write
PersistMetaSkipped == lsMeta' = lsMeta /\ crashed' = setItemThrows

\* the persist effects: each runs when its state object was replaced; the
\* call of setItem is not inside a try block, so what it throws escapes the
\* effect and React unmounts the page
PersistMeta ==
    /\ lsMeta' = IF setItemThrows THEN lsMeta ELSE JSONstringify(ObjectOf(meta'))
    /\ crashed' = setItemThrows
PersistDone ==
    /\ lsProgress' = IF setItemThrows THEN lsProgress
                     ELSE JSONstringify(ArrayOf(done'))
    /\ crashed' = setItemThrows

\* awards are offered while xp is a number of at most MaxXP
XpRoom == meta.xp.t = "num" /\ meta.xp.v <= MaxXP
\* the page reacts to the learner
Live == mounted /\ ~crashed
\* the mini-game modal (fixed inset-0 z-50) covers the page
PageClickable == Live /\ ~showMaze

(***************************************************************************)
(* GitTrainPage: one action per effect, callback and click handler.        *)
(***************************************************************************)
\* The effects of the first commit, in the order useProgress declares them
\* (hydrate, persist flags, persist meta), the render they cause and the
\* persist effects of that render.
MountEffects ==
    /\ ~mounted /\ ~crashed
    /\ LET done1 == HydrateDone(lsProgress, done)
           \* the persist effects of the first render write its state
           ls1 == JSONstringify(ArrayOf(done))
           lm1 == JSONstringify(ObjectOf(meta))
           \* JSON.parse runs in the setMeta updater, during the next render
           throws == lsMeta.t # "absent" /\ ~CanParse(lsMeta)
       IN  IF throws
           THEN /\ crashed' = TRUE
                /\ lsProgress' = IF setItemThrows THEN lsProgress ELSE ls1
                /\ lsMeta' = IF setItemThrows THEN lsMeta ELSE lm1
                /\ UNCHANGED <<done, meta>>
           ELSE /\ done' = done1
                /\ meta' = HydrateMeta(lsMeta, meta)
                /\ PersistDone /\ PersistMeta
    /\ mounted' = TRUE
    /\ UNCHANGED <<gqVars, version, setItemThrows, chapters, loading, loaded, panel, showIntro, showMaze,
                   cells, quizAnswer, quizFeedback, bossIdx, bossAnswer, timers>>

\* useGitChapters: one iteration of the import loop; the last one publishes
LoadEntry(i) ==
    IF Content[i + 1].t = "obj"
    THEN [index |-> i, exists |-> TRUE, data |-> Content[i + 1]]
    ELSE [index |-> i, exists |-> FALSE, data |-> Null]
LoadStep ==
    /\ Live /\ loading /\ Len(loaded) < NumChapters
    /\ loaded' = Append(loaded, LoadEntry(Len(loaded)))
    /\ IF Len(loaded') = NumChapters
       THEN chapters' = loaded' /\ loading' = FALSE
       ELSE UNCHANGED <<chapters, loading>>
    /\ UNCHANGED <<gqVars, version, setItemThrows, done, meta, lsProgress, lsMeta, mounted, crashed,
                   panel, showIntro, showMaze, cells, timers>>
    /\ QuizKept /\ BossKept

\* IntroOverlay: Start
StartIntro ==
    /\ PageClickable /\ showIntro
    /\ showIntro' = FALSE
    /\ UNCHANGED <<gqVars, version, setItemThrows, done, meta, lsProgress, lsMeta, mounted, crashed,
                   chapters, loading, loaded, panel, showMaze, cells, quizAnswer,
                   quizFeedback, bossIdx, bossAnswer, timers>>

\* a variant that decides on the flags of the first render
OpenChapterCached(i) ==
    /\ PageClickable /\ ~showIntro
    /\ panel' = IF canOpen(i, DefaultDone) THEN OpenedPanel(i) ELSE panel
    /\ UNCHANGED <<gqVars, version, setItemThrows, done, meta, lsProgress, lsMeta, mounted, crashed,
                   chapters, loading, loaded, showIntro, showMaze, cells, timers>>
    /\ QuizKept /\ BossKept

\* a click on bogie i: Bogie.onClick, then openChapter(i)
OpenChapter(i) ==
    /\ PageClickable /\ ~showIntro
    /\ panel' = IF canOpen(i, done) THEN OpenedPanel(i) ELSE panel
    /\ UNCHANGED <<gqVars, version, setItemThrows, done, meta, lsProgress, lsMeta, mounted, crashed,
                   chapters, loading, loaded, showIntro, showMaze, cells, timers>>
    /\ QuizKept /\ BossKept

\* Back to Platform
BackToMap ==
    /\ PageClickable /\ panel.open
    /\ panel' = ClosedPanel
    /\ UNCHANGED <<gqVars, version, setItemThrows, done, meta, lsProgress, lsMeta, mounted, crashed,
                   chapters, loading, loaded, showIntro, showMaze, cells, timers>>
    /\ QuizKept /\ BossKept

\* Start Challenge: setPanel(p => ({ ...p, mode: "QUIZ" }))
StartChallenge ==
    /\ PageClickable /\ LessonShown(panel, chapters)
    /\ Truthy(TopicShown(panel, chapters).quiz)
    /\ panel' = [panel EXCEPT !.mode = "QUIZ"]
    /\ UNCHANGED <<gqVars, version, setItemThrows, done, meta, lsProgress, lsMeta, mounted, crashed,
                   chapters, loading, loaded, showIntro, showMaze, cells, timers>>
    /\ QuizKept /\ BossKept

\* Next Topic: award(20); onNext()
NextTopic ==
    /\ PageClickable /\ LessonShown(panel, chapters)
    /\ ~Truthy(TopicShown(panel, chapters).quiz)
    /\ XpRoom
    /\ meta' = awardXP(meta, AwardAmount(Num(20)))
    /\ panel' = nextTopicOrBoss(panel, currentChapter(panel, chapters),
                                panel.topicIdx, version)
    /\ PersistMeta
    /\ UNCHANGED <<gqVars, version, setItemThrows, done, lsProgress, mounted, chapters, loading,
                   loaded, showIntro, showMaze, cells, timers>>
    /\ QuizKept /\ BossKept

\* QuizPanel: a radio button or the text input
QuizSetAnswer(a) ==
    /\ PageClickable /\ QuizShown(panel, chapters)
    /\ LET data == TopicShown(panel, chapters).quiz
       IN  \/ data.type = "mcq" /\ a \in McqChoices(data)
           \/ data.type = "blank" /\ a.t = "str"
    /\ quizAnswer' = a
    /\ UNCHANGED <<gqVars, version, setItemThrows, done, meta, lsProgress, lsMeta, mounted, crashed,
                   chapters, loading, loaded, panel, showIntro, showMaze, cells,
                   quizFeedback, bossIdx, bossAnswer, timers>>

\* QuizPanel.submit
QuizSubmit ==
    /\ PageClickable /\ QuizShown(panel, chapters)
    /\ LET data == TopicShown(panel, chapters).quiz
           ok == Evaluate(data, quizAnswer)
       IN  /\ data.type \in {"mcq", "blank"}
           /\ quizFeedback' = IF ok THEN "ok" ELSE "wrong"
           /\ IF ok
              THEN \* setTimeout(onCorrect, 400)
                   /\ XpRoom /\ Len(timers) < MaxTimers
                   /\ timers' = Append(timers, [idx |-> panel.idx,
                                                topicIdx |-> panel.topicIdx])
                   /\ UNCHANGED <<meta, lsMeta, crashed>>
              ELSE \* onWrong: breakStreak()
                   /\ meta' = breakStreak(meta)
                   /\ PersistMeta
                   /\ UNCHANGED timers
    /\ UNCHANGED <<gqVars, version, setItemThrows, done, lsProgress, mounted, chapters, loading,
                   loaded, panel, showIntro, showMaze, cells, quizAnswer, bossIdx,
                   bossAnswer>>

\* the oldest pending timer fires: onCorrect of the render that submitted,
\* () => { award(topic.quiz.xp ?? 40); onNext(); }
FireTimer ==
    /\ Live /\ timers # <<>>
    /\ LET c == Head(timers)
           ch == chapters[c.idx + 1].data
           topic == TopicAt(ch, c.topicIdx)
       IN  /\ meta' = awardXP(meta, AwardAmount(Coalesce(topic.quiz.xp, Num(40))))
           /\ panel' = nextTopicOrBoss(panel, ch, c.topicIdx, version)
    /\ timers' = Tail(timers)
    /\ PersistMeta
    /\ UNCHANGED <<gqVars, version, setItemThrows, done, lsProgress, mounted, chapters, loading,
                   loaded, showIntro, showMaze, cells>>
    /\ QuizKept /\ BossKept

\* BossPanel: a radio button or the text input
BossSetAnswer(a) ==
    /\ PageClickable /\ BossShown(panel, chapters)
    /\ LET q == QuestionAt(currentChapter(panel, chapters).boss, bossIdx)
       IN  /\ q # Undef
           /\ \/ q.type = "mcq" /\ a \in McqChoices(q)
              \/ q.type = "blank" /\ a.t = "str"
    /\ bossAnswer' = a
    /\ UNCHANGED <<gqVars, version, setItemThrows, done, meta, lsProgress, lsMeta, mounted, crashed,
                   chapters, loading, loaded, panel, showIntro, showMaze, cells,
                   quizAnswer, quizFeedback, bossIdx, timers>>

\* onWinBoss of the page, after markChapterComplete(panel.idx): the clean
\* version goes back to the map, the AAA version does not
AfterWinPanel(p, ver) == IF ver = "clean" THEN ClosedPanel ELSE p

\* markChapterComplete(i), the part that writes meta: awardXP(120); grantBadge
CompleteMeta(m, i) == grantBadge(awardXP(m, 120), ChapterBadge(i))

\* BossPanel.submit
BossSubmit ==
    /\ PageClickable /\ BossShown(panel, chapters)
    /\ UNCHANGED <<gqVars, version, setItemThrows, mounted, chapters, loading, loaded, showIntro,
                   timers>>
    /\ LET boss == currentChapter(panel, chapters).boss
           q == QuestionAt(boss, bossIdx)
           ok == Evaluate(q, bossAnswer)
           next == bossIdx + 1
       IN  /\ q # Undef
           /\ IF ok /\ next < QuestionCount(boss)
              THEN \* setIdx(next); setAnswer(null)
                   /\ bossIdx' = next /\ bossAnswer' = Null
                   /\ UNCHANGED <<done, meta, lsProgress, lsMeta, crashed, panel,
                                  showMaze, cells, quizAnswer, quizFeedback>>
              ELSE IF ok
              THEN \* onWin: award(100); onWinBoss()
                   /\ XpRoom
                   /\ done' = SetFlag(done, panel.idx)
                   /\ meta' = CompleteMeta(awardXP(meta, AwardAmount(Num(100))),
                                           panel.idx)
                   /\ showMaze' = IF panel.idx = 2 THEN TRUE ELSE showMaze
                   /\ cells' = {}
                   /\ panel' = AfterWinPanel(panel, version)
                   /\ PersistDone /\ PersistMeta
                   /\ QuizKept /\ BossKept
              ELSE \* onMiss: breakStreak()
                   /\ meta' = breakStreak(meta)
                   /\ PersistMeta
                   /\ UNCHANGED <<done, lsProgress, panel, showMaze, cells,
                                  quizAnswer, quizFeedback, bossIdx, bossAnswer>>

\* MergeMazePanel: a click on cell i; the effect on [solved, onWin] calls
\* onWin of the page: awardXP(80); grantBadge(...); setShowMaze(false)
MazeToggle(i) ==
    /\ Live /\ showMaze /\ i \in MazeClicks
    /\ LET on == IF i \in cells THEN cells \ {i} ELSE cells \cup {i}
       IN  IF solved(on)
           THEN /\ XpRoom
                /\ meta' = grantBadge(awardXP(meta, 80), "Merge Maze Victor")
                /\ showMaze' = FALSE
                /\ cells' = {}
                /\ PersistMeta
           ELSE /\ cells' = on
                /\ UNCHANGED <<meta, lsMeta, crashed, showMaze>>
    /\ UNCHANGED <<gqVars, version, setItemThrows, done, lsProgress, mounted, chapters, loading,
                   loaded, panel, showIntro, quizAnswer, quizFeedback, bossIdx,
                   bossAnswer, timers>>

\* MergeMazePanel: Close
MazeClose ==
    /\ Live /\ showMaze
    /\ showMaze' = FALSE
    /\ cells' = {}
    /\ UNCHANGED <<gqVars, version, setItemThrows, done, meta, lsProgress, lsMeta, mounted, crashed,
                   chapters, loading, loaded, panel, showIntro, quizAnswer,
                   quizFeedback, bossIdx, bossAnswer, timers>>

(***************************************************************************)
(* The clean version of the page, from its first render.                   *)
(***************************************************************************)
Prefix(n) == [k \in 1..NumChapters |-> k <= n]
\* what localStorage may hold when the page is opened
StoredInputs ==
    { \* a first visit
      <<Absent, Absent>>,
      \* flags stored by something else: an array of two entries
      <<JSONstringify(ArrayOf(<<TRUE, TRUE>>)), Absent>>,
      \* two chapters cleared, no meta record
      <<JSONstringify(ArrayOf(Prefix(2))), Absent>>,
      \* a returning learner: four chapters cleared, a streak of two
      <<JSONstringify(ArrayOf(Prefix(4))),
        JSONstringify(ObjectOf([xp |-> Num(50), coins |-> Num(5),
                                streak |-> Num(2), badges |-> <<>>,
                                settings |-> SETTINGS]))>> }
AnswerInputs == {Num(k) : k \in 0..2} \cup TypedTexts

FirstRender(ver) ==
    /\ version = ver
    /\ done = DefaultDone
    /\ meta = DefaultMeta
    /\ mounted = FALSE
    /\ crashed = FALSE
    /\ setItemThrows = FALSE
    /\ chapters = <<>>
    /\ loading = TRUE
    /\ loaded = <<>>
    /\ panel = ClosedPanel
    /\ showIntro = (ver # "realistic")
    /\ showMaze = FALSE
    /\ cells = {}
    /\ quizAnswer = Null
    /\ quizFeedback = "none"
    /\ bossIdx = 0
    /\ bossAnswer = Null
    /\ timers = <<>>

\* GitQuest3D: the state after the first render
GqFirstRender ==
    /\ gqChapters = <<>>
    /\ gqLoading = TRUE
    /\ gqLoaded = <<>>
    /\ state = "MAP"
    /\ current = [chapterIdx |-> NoChapter, topicIdx |-> 0]
    /\ xp = 0
    /\ coins = 0
    /\ streak = 0
    /\ mode = "LESSON"
    /\ topicIdx = 0
    /\ gqAnswer = Null
    /\ gqFeedback = "none"
    /\ gqIdx = 0
    /\ gqBossAnswer = Null
    /\ score = 0
    /\ gqTimers = <<>>

Init ==
    /\ FirstRender("clean") /\ GqFirstRender
    /\ \E st \in StoredInputs : lsProgress = st[1] /\ lsMeta = st[2]

Next ==
    \/ MountEffects
    \/ LoadStep
    \/ StartIntro
    \/ \E i \in ChapterIdx : OpenChapter(i)
    \/ BackToMap
    \/ StartChallenge
    \/ NextTopic
    \/ \E a \in AnswerInputs : QuizSetAnswer(a)
    \/ QuizSubmit
    \/ FireTimer
    \/ \E a \in AnswerInputs : BossSetAnswer(a)
    \/ BossSubmit
    \/ \E i \in MazeCellIdx : MazeToggle(i)
    \/ MazeClose

vars == <<trainVars, gqVars>>

Spec == Init /\ [][Next]_vars

(***************************************************************************)
(* The AAA pass version of the page: the same handlers, except that        *)
(* nextTopicOrBoss reads panel.topicIdx of its render and onWinBoss does   *)
(* not go back to the map.                                                 *)
(***************************************************************************)
InitAAA ==
    /\ FirstRender("aaa") /\ GqFirstRender
    /\ \E st \in StoredInputs : lsProgress = st[1] /\ lsMeta = st[2]

SpecAAA == InitAAA /\ [][Next]_vars

(***************************************************************************)
(* The page opened on any stored state, while the content is still         *)
(* loading: hydration, the intro and the map.                              *)
(***************************************************************************)
S_bad == <<"b", "a", "d">>
Restrict(f, D) == [x \in D |-> f[x]]
\* every 10-element array of booleans
StoredFlagArrays == [1..NumChapters -> BOOLEAN]
\* objects holding any subset of the four counters, well typed or not
StoredMetaObjects ==
    { Restrict(full, D) :
        full \in [xp : {Num(50), Str(S_bad)}, coins : {Num(5), Str(S_bad)},
                  streak : {Num(2)}, badges : {<<>>}],
        D \in SUBSET {"xp", "coins", "streak", "badges"} }
StoredAnything ==
    {<<JSONstringify(ArrayOf(f)), Absent>> : f \in StoredFlagArrays}
    \cup {<<Absent, JSONstringify(ObjectOf(m))>> : m \in StoredMetaObjects}
    \cup {<<JSONstringify(ArrayOf(<<TRUE, TRUE>>)), JSONstringify(Num(5))>>,
          \* a record that names one badge twice
          <<Absent,
            JSONstringify(ObjectOf([badges |-> <<"Chapter 1 Cleared",
                                                "Chapter 1 Cleared">>]))>>,
          \* a record that switches sequential unlock off
          <<Absent,
            JSONstringify(ObjectOf([settings |-> [sequentialUnlock |-> FALSE]]))>>,
          <<JSONstringify(Num(5)), Absent>>,
          <<Garbage, Garbage>>}

InitStored ==
    /\ FirstRender("clean") /\ GqFirstRender
    /\ \E st \in StoredAnything : lsProgress = st[1] /\ lsMeta = st[2]

NextStored ==
    \/ MountEffects
    \/ StartIntro
    \/ \E i \in ChapterIdx : OpenChapter(i)
    \/ BackToMap

SpecStored == InitStored /\ [][NextStored]_vars

(***************************************************************************)
(* GitQuest3D (src/unnamed/part_000): the same panels, with the engine     *)
(* state split between the page (state, current, xp, coins, streak) and    *)
(* the local state of ChapterPanel (mode, topicIdx).                       *)
(***************************************************************************)
\* importers.length: only ch1 and ch2 are imported
GqImporters == 2

\* the chapter memo of a render
chapter(cur, chs) ==
    IF cur.chapterIdx = NoChapter THEN Null
    ELSE IF cur.chapterIdx + 1 \in 1..Len(chs) /\ chs[cur.chapterIdx + 1].exists
    THEN chs[cur.chapterIdx + 1].data
    ELSE Null

\* which components a render shows
GqPanelShown(st, cur, chs) == st # "MAP" /\ chapter(cur, chs) # Null
GqLessonShown(st, cur, chs, md, ti) ==
    /\ GqPanelShown(st, cur, chs) /\ md = "LESSON"
    /\ TopicAt(chapter(cur, chs), ti) # Null
GqQuizShown(st, cur, chs, md, ti) ==
    /\ GqPanelShown(st, cur, chs) /\ md = "QUIZ"
    /\ TopicAt(chapter(cur, chs), ti) # Null
    /\ Truthy(TopicAt(chapter(cur, chs), ti).quiz)
GqBossShown(st, cur, chs, md) ==
    /\ GqPanelShown(st, cur, chs) /\ md = "BOSS"
    /\ Truthy(chapter(cur, chs).boss)

\* ChapterPanel.nextTopic of a render with chapter ch and topicIdx ti, applied
\* to an instance whose topicIdx is now tiNow
nextTopic(ch, ti, tiNow) ==
    IF Truthy(ch.topics) /\ ti + 1 < TopicCount(ch)
    THEN [mode |-> "LESSON", topicIdx |-> ti + 1]
    ELSE [mode |-> "BOSS", topicIdx |-> tiNow]

\* the bonus award(x) computes from the streak of its render
Bonus(s) == IF s >= 3 THEN 10 ELSE 0

\* The commit after an event: the values the setters left, with the local
\* state of a component kept only while the component stays rendered (an
\* instance that is not rendered starts again from its useState defaults),
\* and the callbacks of an unmounted ChapterPanel left without an instance.
GqCommit(st, cur, chs, md, ti, qa, qf, bi, ba, sc, tm) ==
    LET shown == GqPanelShown(st, cur, chs)
        md1 == IF shown THEN md ELSE "LESSON"
        ti1 == IF shown THEN ti ELSE 0
        quiz == GqQuizShown(st, cur, chs, md1, ti1)
        boss == GqBossShown(st, cur, chs, md1)
    IN  /\ state' = st /\ current' = cur /\ gqChapters' = chs
        /\ mode' = md1 /\ topicIdx' = ti1
        /\ gqAnswer' = IF quiz THEN qa ELSE Null
        /\ gqFeedback' = IF quiz THEN qf ELSE "none"
        /\ gqIdx' = IF boss THEN bi ELSE 0
        /\ gqBossAnswer' = IF boss THEN ba ELSE Null
        /\ score' = IF boss THEN sc ELSE 0
        /\ gqTimers' = IF shown THEN tm
                       ELSE [k \in 1..Len(tm) |-> [tm[k] EXCEPT !.alive = FALSE]]

\* useGitChapters: one iteration of the import loop; the last one publishes
GqLoadStep ==
    /\ gqLoading /\ Len(gqLoaded) < GqImporters
    /\ gqLoaded' = Append(gqLoaded, LoadEntry(Len(gqLoaded)))
    /\ gqLoading' = (Len(gqLoaded') < GqImporters)
    /\ GqCommit(state, current,
                IF Len(gqLoaded') = GqImporters THEN gqLoaded' ELSE gqChapters,
                mode, topicIdx, gqAnswer, gqFeedback, gqIdx, gqBossAnswer, score,
                gqTimers)
    /\ UNCHANGED <<trainVars, xp, coins, streak>>

\* a click on portal i: enterChapter(i)
GqEnterChapter(i) ==
    /\ GqCommit("LESSON", [chapterIdx |-> i, topicIdx |-> 0], gqChapters, mode,
                topicIdx, gqAnswer, gqFeedback, gqIdx, gqBossAnswer, score,
                gqTimers)
    /\ UNCHANGED <<trainVars, gqLoading, gqLoaded, xp, coins, streak>>

\* Back to Map
GqBackToMap ==
    /\ state # "MAP"
    /\ GqCommit("MAP", current, gqChapters, mode, topicIdx, gqAnswer, gqFeedback,
                gqIdx, gqBossAnswer, score, gqTimers)
    /\ UNCHANGED <<trainVars, gqLoading, gqLoaded, xp, coins, streak>>

\* Start Challenge: setMode("QUIZ")
GqStartChallenge ==
    /\ GqLessonShown(state, current, gqChapters, mode, topicIdx)
    /\ Truthy(TopicAt(chapter(current, gqChapters), topicIdx).quiz)
    /\ GqCommit(state, current, gqChapters, "QUIZ", topicIdx, gqAnswer,
                gqFeedback, gqIdx, gqBossAnswer, score, gqTimers)
    /\ UNCHANGED <<trainVars, gqLoading, gqLoaded, xp, coins, streak>>

\* Next Topic: nextTopic()
GqNextTopic ==
    /\ GqLessonShown(state, current, gqChapters, mode, topicIdx)
    /\ ~Truthy(TopicAt(chapter(current, gqChapters), topicIdx).quiz)
    /\ LET nt == nextTopic(chapter(current, gqChapters), topicIdx, topicIdx)
       IN  GqCommit(state, current, gqChapters, nt.mode, nt.topicIdx, gqAnswer,
                    gqFeedback, gqIdx, gqBossAnswer, score, gqTimers)
    /\ UNCHANGED <<trainVars, gqLoading, gqLoaded, xp, coins, streak>>

\* .trim() of a truthy value that is not a string throws a TypeError, which
\* ends the click handler before any setter is called
SubmitThrows(q, answer) ==
    q.type = "blank" /\ Truthy(answer) /\ answer.t # "str"

\* QuizPanel: a radio button or the text input
GqQuizSetAnswer(a) ==
    /\ GqQuizShown(state, current, gqChapters, mode, topicIdx)
    /\ LET data == TopicAt(chapter(current, gqChapters), topicIdx).quiz
       IN  \/ data.type = "mcq" /\ a \in McqChoices(data)
           \/ data.type = "blank" /\ a \in TypedTexts
    /\ gqAnswer' = a
    /\ UNCHANGED <<trainVars, gqChapters, gqLoading, gqLoaded, state, current, xp,
                   coins, streak, mode, topicIdx, gqFeedback, gqIdx, gqBossAnswer,
                   score, gqTimers>>

\* QuizPanel.submit: a correct answer schedules
\* () => onCorrect(data.xp ?? 30), with onCorrect = (xp) => { award(xp);
\* nextTopic(); } of the render on screen; a wrong one calls miss()
GqQuizSubmit ==
    /\ GqQuizShown(state, current, gqChapters, mode, topicIdx)
    /\ LET data == TopicAt(chapter(current, gqChapters), topicIdx).quiz
       IN  /\ data.type \in {"mcq", "blank"}
           /\ ~SubmitThrows(data, gqAnswer)
           /\ IF Evaluate(data, gqAnswer)
              THEN /\ xp <= MaxXP /\ Len(gqTimers) < MaxTimers
                   /\ gqFeedback' = "ok"
                   /\ gqTimers' =
                         Append(gqTimers,
                                [streak |-> streak,
                                 x |-> Coalesce(data.xp, Num(30)).v,
                                 ch |-> current.chapterIdx,
                                 topicIdx |-> topicIdx,
                                 alive |-> TRUE])
                   /\ UNCHANGED streak
              ELSE /\ gqFeedback' = "wrong"
                   /\ streak' = 0
                   /\ UNCHANGED gqTimers
    /\ UNCHANGED <<trainVars, gqChapters, gqLoading, gqLoaded, state, current, xp,
                   coins, mode, topicIdx, gqAnswer, gqIdx, gqBossAnswer, score>>

\* the oldest pending timer fires: award(x) with the streak of the render
\* that submitted, then nextTopic() of that render's ChapterPanel, whose
\* setters reach the instance only while it is mounted
GqFireTimer ==
    /\ gqTimers # <<>>
    /\ LET c == Head(gqTimers)
           nt == nextTopic(gqChapters[c.ch + 1].data, c.topicIdx, topicIdx)
       IN  /\ xp' = xp + c.x + Bonus(c.streak)
           /\ coins' = coins + (c.x \div 10)
           /\ streak' = streak + 1
           /\ GqCommit(state, current, gqChapters,
                       IF c.alive THEN nt.mode ELSE mode,
                       IF c.alive THEN nt.topicIdx ELSE topicIdx,
                       gqAnswer, gqFeedback, gqIdx, gqBossAnswer, score,
                       Tail(gqTimers))
    /\ UNCHANGED <<trainVars, gqLoading, gqLoaded>>

\* BossPanel: a radio button or the text input
GqBossSetAnswer(a) ==
    /\ GqBossShown(state, current, gqChapters, mode)
    /\ LET q == QuestionAt(chapter(current, gqChapters).boss, gqIdx)
       IN  /\ q # Undef
           /\ \/ q.type = "mcq" /\ a \in McqChoices(q)
              \/ q.type = "blank" /\ a \in TypedTexts
    /\ gqBossAnswer' = a
    /\ UNCHANGED <<trainVars, gqChapters, gqLoading, gqLoaded, state, current, xp,
                   coins, streak, mode, topicIdx, gqAnswer, gqFeedback, gqIdx,
                   score, gqTimers>>

\* BossPanel.submit: a correct answer adds q.xp ?? 50 to score and moves on,
\* or after the last question calls onWin(score + gained) = award(total); a
\* wrong answer changes nothing
GqBossSubmit ==
    /\ GqBossShown(state, current, gqChapters, mode)
    /\ LET boss == chapter(current, gqChapters).boss
           q == QuestionAt(boss, gqIdx)
           gained == Coalesce(q.xp, Num(50)).v
           next == gqIdx + 1
       IN  /\ q # Undef
           /\ ~SubmitThrows(q, gqBossAnswer)
           /\ IF ~Evaluate(q, gqBossAnswer)
              THEN UNCHANGED <<xp, coins, streak, gqIdx, gqBossAnswer, score>>
              ELSE IF next < QuestionCount(boss)
              THEN /\ score' = score + gained
                   /\ gqIdx' = next /\ gqBossAnswer' = Null
                   /\ UNCHANGED <<xp, coins, streak>>
              ELSE /\ xp <= MaxXP
                   /\ score' = score + gained
                   /\ xp' = xp + (score + gained) + Bonus(streak)
                   /\ coins' = coins + ((score + gained) \div 10)
                   /\ streak' = streak + 1
                   /\ UNCHANGED <<gqIdx, gqBossAnswer>>
    /\ UNCHANGED <<trainVars, gqChapters, gqLoading, gqLoaded, state, current,
                   mode, topicIdx, gqAnswer, gqFeedback, gqTimers>>

Init3D ==
    /\ FirstRender("clean") /\ GqFirstRender
    /\ lsProgress = Absent /\ lsMeta = Absent

Next3D ==
    \/ GqLoadStep
    \/ \E i \in ChapterIdx : GqEnterChapter(i)
    \/ GqBackToMap
    \/ GqStartChallenge
    \/ GqNextTopic
    \/ \E a \in AnswerInputs : GqQuizSetAnswer(a)
    \/ GqQuizSubmit
    \/ GqFireTimer
    \/ \E a \in AnswerInputs : GqBossSetAnswer(a)
    \/ GqBossSubmit

Spec3D == Init3D /\ [][Next3D]_vars

(***************************************************************************)
(* The realistic version of the page (page.jsx:652-1188): flags only, no   *)
(* meta record, no intro, no mini-game.  Handlers that are the same text   *)
(* as in the clean version are the actions above; the others follow.       *)
(***************************************************************************)
\* useProgress of the realistic version: hydrate if (raw), then persist
MountEffectsRealistic ==
    /\ ~mounted /\ ~crashed
    /\ done' = HydrateDone(lsProgress, done)
    /\ PersistDone
    /\ mounted' = TRUE
    /\ UNCHANGED <<gqVars, version, setItemThrows, meta, lsMeta, chapters, loading, loaded,
                   panel, showIntro, showMaze, cells, quizAnswer, quizFeedback,
                   bossIdx, bossAnswer, timers>>

\* a click on bogie i: openChapter(i) sets the panel, whatever the flags are
OpenChapterRealistic(i) ==
    /\ PageClickable
    /\ panel' = OpenedPanel(i)
    /\ UNCHANGED <<gqVars, version, setItemThrows, done, meta, lsProgress, lsMeta, mounted, crashed,
                   chapters, loading, loaded, showIntro, showMaze, cells, timers>>
    /\ QuizKept /\ BossKept

\* Next Topic: onNext
NextTopicRealistic ==
    /\ PageClickable /\ LessonShown(panel, chapters)
    /\ ~Truthy(TopicShown(panel, chapters).quiz)
    /\ panel' = nextTopicOrBoss(panel, currentChapter(panel, chapters),
                                panel.topicIdx, version)
    /\ UNCHANGED <<gqVars, version, setItemThrows, done, meta, lsProgress, lsMeta, mounted, crashed,
                   chapters, loading, loaded, showIntro, showMaze, cells, timers>>
    /\ QuizKept /\ BossKept

\* QuizPanel.submit: setTimeout(onCorrect, 500), or onWrong = () => {}
QuizSubmitRealistic ==
    /\ PageClickable /\ QuizShown(panel, chapters)
    /\ LET data == TopicShown(panel, chapters).quiz
           ok == Evaluate(data, quizAnswer)
       IN  /\ quizFeedback' = IF ok THEN "ok" ELSE "wrong"
           /\ IF ok
              THEN /\ Len(timers) < MaxTimers
                   /\ timers' = Append(timers, [idx |-> panel.idx,
                                                topicIdx |-> panel.topicIdx])
              ELSE UNCHANGED timers
    /\ UNCHANGED <<gqVars, version, setItemThrows, done, meta, lsProgress, lsMeta, mounted, crashed,
                   chapters, loading, loaded, panel, showIntro, showMaze, cells,
                   quizAnswer, bossIdx, bossAnswer>>

\* the oldest pending timer fires: onCorrect = () => { onNext(); } of the
\* render that submitted
FireTimerRealistic ==
    /\ Live /\ timers # <<>>
    /\ LET c == Head(timers)
       IN  panel' = nextTopicOrBoss(panel, chapters[c.idx + 1].data, c.topicIdx,
                                    version)
    /\ timers' = Tail(timers)
    /\ UNCHANGED <<gqVars, version, setItemThrows, done, meta, lsProgress, lsMeta, mounted, crashed,
                   chapters, loading, loaded, showIntro, showMaze, cells>>
    /\ QuizKept /\ BossKept

\* BossPanel.submit; onWin is () => { markChapterComplete(panel.idx);
\* backToMap(); }, and a wrong answer changes nothing
BossSubmitRealistic ==
    /\ PageClickable /\ BossShown(panel, chapters)
    /\ UNCHANGED <<gqVars, version, setItemThrows, meta, lsMeta, mounted, chapters, loading,
                   loaded, showIntro, showMaze, cells, timers>>
    /\ LET boss == currentChapter(panel, chapters).boss
           q == QuestionAt(boss, bossIdx)
           ok == Evaluate(q, bossAnswer)
           next == bossIdx + 1
       IN  /\ q # Undef
           /\ IF ok /\ next < QuestionCount(boss)
              THEN /\ bossIdx' = next /\ bossAnswer' = Null
                   /\ UNCHANGED <<done, lsProgress, crashed, panel, quizAnswer,
                                  quizFeedback>>
              ELSE IF ok
              THEN /\ done' = SetFlag(done, panel.idx)
                   /\ panel' = ClosedPanel
                   /\ PersistDone
                   /\ QuizKept /\ BossKept
              ELSE UNCHANGED <<done, lsProgress, crashed, panel, quizAnswer,
                               quizFeedback, bossIdx, bossAnswer>>

\* the one storage key this version reads
StoredFlagInputs == {Absent, JSONstringify(ArrayOf(Prefix(4)))}

InitRealistic ==
    /\ FirstRender("realistic") /\ GqFirstRender
    /\ lsProgress \in StoredFlagInputs
    /\ lsMeta = Absent

NextRealistic ==
    \/ MountEffectsRealistic
    \/ LoadStep
    \/ \E i \in ChapterIdx : OpenChapterRealistic(i)
    \/ BackToMap
    \/ StartChallenge
    \/ NextTopicRealistic
    \/ \E a \in AnswerInputs : QuizSetAnswer(a)
    \/ QuizSubmitRealistic
    \/ FireTimerRealistic
    \/ \E a \in AnswerInputs : BossSetAnswer(a)
    \/ BossSubmitRealistic

SpecRealistic == InitRealistic /\ [][NextRealistic]_vars

(***************************************************************************)
(* The clean version on a storage backend that stops accepting writes:     *)
(* from some moment on (possibly before the page mounts) setItem throws.   *)
(***************************************************************************)
StorageFails ==
    /\ ~setItemThrows /\ ~crashed
    /\ setItemThrows' = TRUE
    /\ UNCHANGED <<gqVars, version, done, meta, lsProgress, lsMeta, mounted, crashed,
                   chapters, loading, loaded, panel, showIntro, showMaze, cells,
                   quizAnswer, quizFeedback, bossIdx, bossAnswer, timers>>

NextStorageFails == Next \/ StorageFails

SpecStorageFails == Init /\ [][NextStorageFails]_vars

(***************************************************************************)
(* Answer evaluation over the questions a content file may carry: the      *)
(* clean version once it is mounted and the loader has published a         *)
(* collection whose chapter 1 has one topic with quiz q and a boss with    *)
(* the one question q.                                                     *)
(***************************************************************************)
QuestionInputs ==
    { Blank(Str(S_init), Undef), Blank(Str(S_Init_padded), Undef),
      Blank(Str(<<>>), Undef), Blank(Undef, Undef),
      Mcq(Num(1), Undef), Mcq(Null, Undef) }
\* what the input of a blank question may hold: also "init" and, after the
\* text was deleted, ""
AnswerInputsTyped == AnswerInputs \cup {Str(S_init), Str(<<>>)}

ChaptersWith(q) ==
    [i \in 1..NumChapters |->
        IF i = 1
        THEN [index |-> 0, exists |-> TRUE,
              data |-> ChapterOf(ArrayOf(<<TopicOf(q)>>), BossOf(ArrayOf(<<q>>)))]
        ELSE [index |-> i - 1, exists |-> FALSE, data |-> Null]]

InitAnswers ==
    /\ GqFirstRender
    /\ version = "clean"
    /\ done = DefaultDone /\ meta = DefaultMeta
    /\ lsProgress = JSONstringify(ArrayOf(DefaultDone))
    /\ lsMeta = JSONstringify(ObjectOf(DefaultMeta))
    /\ setItemThrows = FALSE
    /\ mounted = TRUE /\ crashed = FALSE
    /\ \E q \in QuestionInputs : chapters = ChaptersWith(q)
    /\ loaded = chapters /\ loading = FALSE
    /\ panel = ClosedPanel
    /\ showIntro = TRUE /\ showMaze = FALSE /\ cells = {}
    /\ quizAnswer = Null /\ quizFeedback = "none"
    /\ bossIdx = 0 /\ bossAnswer = Null
    /\ timers = <<>>

NextAnswers ==
    \/ StartIntro
    \/ \E i \in ChapterIdx : OpenChapter(i)
    \/ BackToMap
    \/ StartChallenge
    \/ \E a \in AnswerInputsTyped : QuizSetAnswer(a)
    \/ QuizSubmit
    \/ FireTimer
    \/ \E a \in AnswerInputsTyped : BossSetAnswer(a)
    \/ BossSubmit

SpecAnswers == InitAnswers /\ [][NextAnswers]_vars

(***************************************************************************)
(* The clean version with a learner who stays in the chapter once it is    *)
(* open, waits for the next screen after a correct quiz answer, and keeps  *)
(* going.  setTimeout callbacks run (weak fairness);                       *)
(* the lesson buttons stay on screen until clicked (weak fairness); the    *)
(* correct answer is entered and submitted again and again, between wrong  *)
(* attempts that replace it (strong fairness).                             *)
(***************************************************************************)
\* a click on bogie i while the map is shown
OpenChapterFromMap(i) == ~panel.open /\ OpenChapter(i)

\* Submit / Check, unless the quiz already shows "Correct!"
QuizSubmitOnce == quizFeedback # "ok" /\ QuizSubmit

\* a first visit, or one or two chapters cleared and no meta record
StoredFlagsLive == {Absent} \cup {JSONstringify(ArrayOf(Prefix(n))) : n \in 1..2}

InitLive ==
    /\ FirstRender("clean") /\ GqFirstRender
    /\ lsProgress \in StoredFlagsLive /\ lsMeta = Absent

NextLive ==
    \/ MountEffects
    \/ LoadStep
    \/ StartIntro
    \/ \E i \in ChapterIdx : OpenChapterFromMap(i)
    \/ StartChallenge
    \/ NextTopic
    \/ \E a \in AnswerInputs : QuizSetAnswer(a)
    \/ QuizSubmitOnce
    \/ FireTimer
    \/ \E a \in AnswerInputs : BossSetAnswer(a)
    \/ BossSubmit
    \/ \E i \in MazeCellIdx : MazeToggle(i)
    \/ MazeClose

\* the answer QuizPanel / BossPanel will hold is the correct one
QuizEntersCorrect ==
    \E a \in AnswerInputs :
        QuizSetAnswer(a) /\ Evaluate(TopicShown(panel, chapters).quiz, a)
BossEntersCorrect ==
    \E a \in AnswerInputs :
        /\ BossSetAnswer(a)
        /\ Evaluate(QuestionAt(currentChapter(panel, chapters).boss, bossIdx), a)
QuizSubmitsCorrect ==
    /\ QuizSubmitOnce
    /\ Evaluate(TopicShown(panel, chapters).quiz, quizAnswer)
BossSubmitsCorrect ==
    /\ BossSubmit
    /\ Evaluate(QuestionAt(currentChapter(panel, chapters).boss, bossIdx),
                bossAnswer)

FairLearner ==
    /\ WF_vars(FireTimer)
    /\ WF_vars(StartChallenge)
    /\ WF_vars(NextTopic)
    /\ SF_vars(QuizEntersCorrect)
    /\ SF_vars(QuizSubmitsCorrect)
    /\ SF_vars(BossEntersCorrect)
    /\ SF_vars(BossSubmitsCorrect)

SpecLive == InitLive /\ [][NextLive]_vars /\ FairLearner

(***************************************************************************)
(* The clean version under React StrictMode (development builds): the      *)
(* effects of the first commit are run, and run a second time, before the  *)
(* render that applies the queued updates.                                 *)
(***************************************************************************)
\* hydrate, persist flags, persist meta, and the same three again: the
\* second hydrate reads what the first persist effects wrote, and its
\* setDone / setMeta are queued behind those of the first
MountEffectsTwice ==
    /\ ~mounted /\ ~crashed
    /\ LET ls1 == JSONstringify(ArrayOf(done))
           lm1 == JSONstringify(ObjectOf(meta))
           done2 == HydrateDone(ls1, HydrateDone(lsProgress, done))
           throws == lsMeta.t # "absent" /\ ~CanParse(lsMeta)
       IN  IF throws \/ setItemThrows
           THEN /\ crashed' = TRUE
                /\ lsProgress' = IF setItemThrows THEN lsProgress ELSE ls1
                /\ lsMeta' = IF setItemThrows THEN lsMeta ELSE lm1
                /\ UNCHANGED <<done, meta>>
           ELSE /\ done' = done2
                /\ meta' = HydrateMeta(lm1, HydrateMeta(lsMeta, meta))
                /\ PersistDone /\ PersistMeta
    /\ mounted' = TRUE
    /\ UNCHANGED <<gqVars, version, setItemThrows, chapters, loading, loaded, panel,
                   showIntro, showMaze, cells, quizAnswer, quizFeedback, bossIdx,
                   bossAnswer, timers>>

NextStrictMode == Next \/ MountEffectsTwice

SpecStrictMode == Init /\ [][NextStrictMode]_vars

(***************************************************************************)
(* Properties.                                                             *)
(***************************************************************************)
\* flags[k] of a JavaScript array held as a sequence
FlagAt(flags, k) == flags[k + 1]

\* C1: with sequentialUnlock = true, for every chapter index i in 0..9 and
\* every 10-element flags array the ledger can hold, canOpen(i) is true if
\* and only if i = 0 or flags[i-1] is true.
C1_CanOpenIff ==
    (SETTINGS.sequentialUnlock /\ Len(done) = NumChapters) =>
        \A i \in ChapterIdx :
            canOpen(i, done) <=> (i = 0 \/ FlagAt(done, i - 1))
\* flags = [true, false, ...] were hydrated, canOpen(1) holds, canOpen(2) does
\* not, and chapter 1 has been opened through canOpen
C1_Witness ==
    /\ mounted /\ ~crashed
    /\ FlagAt(done, 0) /\ ~FlagAt(done, 1)
    /\ canOpen(1, done) /\ ~canOpen(2, done)
    /\ panel = OpenedPanel(1)

\* the question BossPanel shows, and whether the answer held is correct
BossQuestionShown ==
    IF BossShown(panel, chapters)
    THEN QuestionAt(currentChapter(panel, chapters).boss, bossIdx)
    ELSE Undef
BossAnswerCorrect ==
    BossQuestionShown # Undef /\ Evaluate(BossQuestionShown, bossAnswer)
FinalBossAnswerCorrect ==
    /\ BossAnswerCorrect
    /\ bossIdx + 1 >= QuestionCount(currentChapter(panel, chapters).boss)
\* whether the answer QuizPanel holds is correct
QuizAnswerCorrect ==
    /\ QuizShown(panel, chapters)
    /\ Evaluate(TopicShown(panel, chapters).quiz, quizAnswer)

\* C2: submitting a correct answer to the last boss question of the open
\* chapter i marks chapter i complete and returns the panel to the closed
\* state (open = false, idx = null), so that no boss is shown and the boss of
\* chapter i cannot be won again until the chapter is reopened.
C2_BossWinReturnsToMap ==
    [][(FinalBossAnswerCorrect /\ BossSubmit) =>
          /\ FlagAt(done', panel.idx)
          /\ panel'.open = FALSE /\ panel'.idx = NoChapter
          /\ ~BossShown(panel', chapters')]_vars

\* C3: a quiz question instance whose correct answer has been accepted
\* (feedback ok, its onCorrect callback scheduled) schedules no further
\* callback, however often Submit is pressed again: the reward path runs at
\* most once per instance.
C3_OneCallbackPerQuiz ==
    [][(QuizSubmit /\ quizFeedback = "ok") => Len(timers') <= Len(timers)]_vars

\* C4: after backToMap no transition or reward happens for the chapter that
\* was left: while the panel is closed, a pending onCorrect callback leaves
\* the panel exactly {open: false, idx: null, mode: "LESSON", topicIdx: 0} and
\* leaves xp, coins and streak unchanged.
C4_NothingAfterBackToMap ==
    [][(panel = ClosedPanel /\ FireTimer) =>
          /\ panel' = ClosedPanel
          /\ meta'.xp = meta.xp /\ meta'.coins = meta.coins
          /\ meta'.streak = meta.streak]_vars

\* a stored meta record that fails shape validation: an object in which xp,
\* coins or streak is present and is not a number
MalformedMeta(item) ==
    /\ CanParse(item)
    /\ JSONparse(item).t = "obj"
    /\ \E f \in (DOMAIN JSONparse(item).v) \cap {"xp", "coins", "streak"} :
           JSONparse(item).v[f].t # "num"

\* C5: when the persisted meta record fails shape validation, e.g.
\* {xp: 50, coins: "bad"}, hydration discards it wholesale: the in-memory
\* meta is the default {xp: 0, coins: 0, streak: 0, badges: []}.
C5_MalformedMetaDiscarded ==
    [][(MountEffects /\ MalformedMeta(lsMeta)) => meta' = DefaultMeta]_vars

\* C6: streak counts consecutive correct answers: every correct boss answer
\* and every rewarded quiz answer adds exactly one, an incorrect quiz or boss
\* answer sets it to 0, and no other learner action (advancing a quiz-less
\* topic, completing a chapter, the mini-game) changes it.
C6_StreakCountsAnswers ==
    [][/\ (BossSubmit /\ BossAnswerCorrect) =>
              meta'.streak = JSAdd(meta.streak, 1)
       /\ (BossSubmit /\ ~BossAnswerCorrect) => meta'.streak = Num(0)
       /\ (QuizSubmit /\ ~QuizAnswerCorrect) => meta'.streak = Num(0)
       /\ FireTimer => meta'.streak = JSAdd(meta.streak, 1)
       /\ (NextTopic \/ (\E i \in MazeCellIdx : MazeToggle(i)) \/ MazeClose) =>
              meta'.streak = meta.streak]_vars

\* C7: an award of base x applied to a ledger with streak s yields
\* xp + x + (10 if s >= 3 else 0), coins + floor(x / 10) and streak s + 1,
\* the bonus computed from the streak at the moment the award is applied:
\* here for the award of a delayed onCorrect callback and for the boss award.
C7_AwardContract ==
    [][/\ GqFireTimer =>
              /\ xp' = xp + Head(gqTimers).x + Bonus(streak)
              /\ coins' = coins + (Head(gqTimers).x \div 10)
              /\ streak' = streak + 1
       /\ (GqBossSubmit /\ streak' # streak) =>
              /\ xp' = xp + score' + Bonus(streak)
              /\ coins' = coins + (score' \div 10)
              /\ streak' = streak + 1]_vars

\* C8: every open of a chapter that has content, from the map or from
\* another chapter open in LESSON, QUIZ or BOSS mode, results in LESSON(0)
\* for the chapter selected: mode LESSON, topic index 0, boss question 0.
C8_OpenStartsAtLessonZero ==
    [][\A i \in ChapterIdx :
          (GqEnterChapter(i) /\ GqPanelShown(state', current', gqChapters')) =>
              /\ current'.chapterIdx = i
              /\ mode' = "LESSON" /\ topicIdx' = 0 /\ gqIdx' = 0]_vars

\* the open chapter stays open and the panel moves on from topic i: to
\* LESSON(i+1) or to BOSS
MovedOn(p, q) ==
    /\ p.open /\ q.open /\ q.idx = p.idx
    /\ \/ q.mode = "BOSS" /\ p.mode # "BOSS"
       \/ q.mode = "LESSON" /\ q.topicIdx = p.topicIdx + 1

\* C9: in QUIZ(i) an incorrect submission leaves the panel at QUIZ(i) and
\* changes nothing in the ledger except streak := 0; and the panel moves from
\* QUIZ(i) to LESSON(i+1) or BOSS only through the callback of a correct
\* submission of that quiz (chapter panel.idx, topic i).
C9_QuizLeavesOnlyWhenCorrect ==
    [][/\ (QuizSubmit /\ ~QuizAnswerCorrect) =>
              /\ panel' = panel
              /\ meta' = [meta EXCEPT !.streak = Num(0)]
              /\ done' = done
       /\ (QuizShown(panel, chapters) /\ MovedOn(panel, panel')) =>
              /\ timers # <<>>
              /\ Head(timers) = [idx |-> panel.idx,
                                 topicIdx |-> panel.topicIdx]]_vars

\* the number of topics of a chapter
TopicsOf(ch) == IF ch.topics.t = "arr" THEN Len(ch.topics.v) ELSE 0
\* the steps the topic state machine allows from panel p of chapter ch
AllowedStep(p, q, ch) ==
    LET i == p.topicIdx
        hasQuiz == TopicAt(ch, i) # Null /\ Truthy(TopicAt(ch, i).quiz)
        advance == IF i + 1 < TopicsOf(ch)
                   THEN q.mode = "LESSON" /\ q.topicIdx = i + 1
                   ELSE q.mode = "BOSS" /\ q.topicIdx = i
    IN  CASE p.mode = "LESSON" /\ hasQuiz -> q.mode = "QUIZ" /\ q.topicIdx = i
          [] p.mode = "LESSON" /\ ~hasQuiz -> advance
          [] p.mode = "QUIZ" -> advance
          [] OTHER -> FALSE

\* C10: while a chapter stays open, every change of (mode, topic index) is a
\* step of the topic state machine: LESSON(i) to QUIZ(i) only when topic i
\* has a quiz, LESSON(i) directly on only when it has none, advancing from
\* topic i to LESSON(i+1) when i+1 < n and to BOSS when i+1 = n; so no topic
\* is skipped before BOSS.
C10_TopicsInOrder ==
    [][(/\ ChapterPanelShown(panel, chapters)
        /\ panel'.open /\ panel'.idx = panel.idx
        /\ <<panel'.mode, panel'.topicIdx>> # <<panel.mode, panel.topicIdx>>
        /\ panel' # OpenedPanel(panel.idx)) =>
          AllowedStep(panel, panel', currentChapter(panel, chapters))]_vars

\* GitQuest3D: the number of questions of the boss shown (k), and whether the
\* answer BossPanel holds is correct
GqBossCount(cur, chs) == QuestionCount(chapter(cur, chs).boss)
GqBossAnswerCorrect ==
    /\ GqBossShown(state, current, gqChapters, mode)
    /\ QuestionAt(chapter(current, gqChapters).boss, gqIdx) # Undef
    /\ Evaluate(QuestionAt(chapter(current, gqChapters).boss, gqIdx),
                gqBossAnswer)

\* C11: in BOSS mode with k >= 1 questions a correct answer on question
\* j < k-1 sets the sub-index to j+1, an incorrect answer leaves it unchanged,
\* completion (the boss award) is signalled only by a correct answer on
\* question k-1, and while a BossPanel is on screen its sub-index never
\* decreases and never exceeds k-1.
C11_BossSubIndex ==
    [][/\ (GqBossSubmit /\ GqBossAnswerCorrect
             /\ gqIdx < GqBossCount(current, gqChapters) - 1) =>
              gqIdx' = gqIdx + 1
       /\ (GqBossSubmit /\ ~GqBossAnswerCorrect) => gqIdx' = gqIdx
       /\ (GqBossSubmit /\ xp' # xp) =>
              /\ GqBossAnswerCorrect
              /\ gqIdx = GqBossCount(current, gqChapters) - 1
       /\ (/\ GqBossShown(state, current, gqChapters, mode)
           /\ GqBossShown(state', current', gqChapters', mode')) =>
              gqIdx' >= gqIdx
       /\ (/\ GqBossShown(state', current', gqChapters', mode')
           /\ GqBossCount(current', gqChapters') >= 1) =>
              gqIdx' <= GqBossCount(current', gqChapters') - 1]_vars

\* C12: backToMap from any state yields the closed state and discards the
\* position in progress (QuizPanel and BossPanel are gone, the boss sub-index
\* with them), changing neither the completion flags nor meta; opening a
\* chapter from the closed state then starts at LESSON(0) with boss
\* sub-index 0.
C12_BackToMapDiscards ==
    [][/\ BackToMap =>
              /\ panel'.open = FALSE /\ panel'.idx = NoChapter
              /\ panel'.mode = "LESSON" /\ panel'.topicIdx = 0
              /\ bossIdx' = 0 /\ bossAnswer' = Null
              /\ quizAnswer' = Null /\ quizFeedback' = "none"
              /\ done' = done /\ meta' = meta
       /\ \A i \in ChapterIdx :
              (OpenChapter(i) /\ ~panel.open /\ canOpen(i, done)) =>
                  /\ panel'.open /\ panel'.idx = i
                  /\ panel'.mode = "LESSON" /\ panel'.topicIdx = 0
                  /\ bossIdx' = 0]_vars
\* backToMap was taken on a first visit while a quiz callback was pending
\* (only backToMap leaves exactly the closed panel when no chapter is done)
C12_Witness ==
    /\ mounted /\ ~crashed
    /\ panel = ClosedPanel /\ timers # <<>> /\ done = DefaultDone

\* the same for GitQuest3D: backToMap unmounts ChapterPanel and leaves xp,
\* coins and streak alone, and entering a chapter from the map starts at
\* LESSON(0) with boss sub-index 0
BackToMapDiscards3D ==
    [][/\ GqBackToMap =>
              /\ state' = "MAP"
              /\ mode' = "LESSON" /\ topicIdx' = 0 /\ gqIdx' = 0 /\ score' = 0
              /\ xp' = xp /\ coins' = coins /\ streak' = streak
       /\ \A i \in ChapterIdx :
              (GqEnterChapter(i) /\ state = "MAP") =>
                  /\ current'.chapterIdx = i
                  /\ mode' = "LESSON" /\ topicIdx' = 0 /\ gqIdx' = 0]_vars

\* C13: on boss completion for the open chapter i the completion handler sets
\* flags[i] and no other flag, one chapter-clear award of 120 goes through
\* awardXP after the boss award of 100 (two awards in all, each with the bonus
\* of the streak it meets), and afterwards the badges contain
\* "Chapter {i+1} Cleared".
C13_CompletionHandler ==
    [][(FinalBossAnswerCorrect /\ BossSubmit) =>
          LET i == panel.idx
              s == meta.streak.v
              b1 == IF s >= 3 THEN 10 ELSE 0
              b2 == IF s + 1 >= 3 THEN 10 ELSE 0
          IN  /\ \A k \in ChapterIdx :
                     FlagAt(done', k) = (k = i \/ FlagAt(done, k))
              /\ meta'.xp = Num(meta.xp.v + 100 + b1 + 120 + b2)
              /\ meta'.coins = Num(meta.coins.v + 10 + 12)
              /\ meta'.streak = Num(s + 2)
              /\ Includes(meta'.badges, ChapterBadge(i))]_vars
\* chapter 1 was completed on a first visit: its flag alone is set, the
\* boss and chapter-clear awards were applied and its badge is held
C13_Witness ==
    /\ mounted /\ ~crashed
    /\ FlagAt(done, 0) /\ \A k \in 1..9 : ~FlagAt(done, k)
    /\ Includes(meta.badges, "Chapter 1 Cleared")
    /\ meta.xp.v >= 220

\* the last boss question of the open chapter, counted from the content
LastBossQuestion ==
    Len(currentChapter(panel, chapters).boss.questions.v) - 1

\* C14: the completion flags are written only by the chapter-completion
\* handler, that is by a correct answer to the last boss question, and by
\* hydration at session start; every other action leaves every flag
\* unchanged.
C14_FlagsWrittenOnlyByCompletion ==
    [][done' # done =>
          \/ MountEffects
          \/ BossSubmit /\ BossAnswerCorrect /\ bossIdx = LastBossQuestion]_vars
\* on a first visit chapter 1 was completed and play went on: the chapter was
\* opened again and a wrong quiz answer broke the streak
C14_Witness ==
    /\ mounted /\ ~crashed
    /\ FlagAt(done, 0) /\ ~FlagAt(done, 1)
    /\ panel.open /\ panel.idx = 0 /\ panel.mode = "QUIZ"
    /\ quizFeedback = "wrong" /\ meta.streak = Num(0)

\* no name occurs twice in a badge collection
NoDuplicates(badges) ==
    \A j, k \in 1..Len(badges) : j # k => badges[j] # badges[k]

\* C15: the badge collection never contains the same name twice, in any
\* state of the running page, the states produced by hydrating the persisted
\* meta included.
C15_BadgesDuplicateFree ==
    (mounted /\ ~crashed) => NoDuplicates(meta.badges)

C17_TenFlags ==
    /\ Len(done) = 10
    /\ [][ /\ Len(done') = 10
           /\ (MountEffects
                 /\ ~(CanParse(lsProgress) /\ JSONparse(lsProgress).t = "arr"
                       /\ Len(JSONparse(lsProgress).v) = 10))
               => done' = DefaultDone ]_vars
\* chapter 3 was completed by the learner who came back with two chapters
\* cleared: hydration and markChapterComplete have both written the flags
C17_Witness ==
    /\ mounted /\ ~crashed
    /\ FlagAt(done, 0) /\ FlagAt(done, 1) /\ FlagAt(done, 2) /\ ~FlagAt(done, 3)
    /\ Len(done) = 10


\* C18: when the ledger's settings.sequentialUnlock is false (the stored
\* meta record carries settings {sequentialUnlock: false}), canOpen(i) is
\* true for every chapter index i whatever the completion flags are.
C18_UnlockOffOpensAll ==
    (mounted /\ ~crashed /\ ~meta.settings.sequentialUnlock)
        => \A i \in ChapterIdx : canOpen(i, done)


\* C19: under sequential unlock a locked chapter is never entered: a click
\* on a bogie whose chapter canOpen refuses leaves the panel as it is, and
\* in every reachable state with a chapter open at index i > 0, flags[i-1]
\* is true, whichever version of the page opened it.
C19_LockedNeverEntered ==
    /\ (panel.open /\ panel.idx > 0) => FlagAt(done, panel.idx - 1)
    /\ [][ \A i \in ChapterIdx :
             (~canOpen(i, done) /\ panel # OpenedPanel(i)) => panel' # OpenedPanel(i) ]_vars


\* the prerequisite of chapter i as the ledger records it now
Unlocked(i, flags) == i = 0 \/ FlagAt(flags, i - 1)

C21_WriteFailureTolerated ==
    [][(setItemThrows /\ ~crashed) => ~crashed']_vars


\* C22: the ledger is written through to storage after every mutation:
\* whenever the page is quiescent (mounted, every pending effect has run),
\* the stored flags record parses to the flags in memory and the stored meta
\* record parses to the meta in memory.
C22_WrittenThrough ==
    (mounted /\ ~crashed) =>
        /\ CanParse(lsProgress) /\ JSONparse(lsProgress) = ArrayOf(done)
        /\ CanParse(lsMeta) /\ JSONparse(lsMeta) = ObjectOf(meta)
\* chapter 1 was completed (flags, xp and badge written) and a wrong answer
\* then reset the streak; storage holds all of it
C22_Witness ==
    /\ mounted /\ ~crashed
    /\ FlagAt(done, 0) /\ Includes(meta.badges, "Chapter 1 Cleared")
    /\ meta.streak = Num(0) /\ meta.xp.v >= 220
    /\ JSONparse(lsProgress) = ArrayOf(done)
    /\ JSONparse(lsMeta) = ObjectOf(meta)


\* what the collection must hold for index i: the file's content, or the
\* record of a failed load
ExpectedEntry(i) ==
    IF Content[i + 1].t = "obj"
    THEN [index |-> i, exists |-> TRUE, data |-> Content[i + 1]]
    ELSE [index |-> i, exists |-> FALSE, data |-> Null]
LoadedInOrder(chs) ==
    /\ Len(chs) = 10
    /\ \A i \in 0..9 : chs[i + 1] = ExpectedEntry(i)

\* C23: when loading finishes, the chapter collection has exactly 10
\* entries and entry i describes chapter index i; a failed load for index i
\* yields {exists:false, data:null} for i only; the loading flag is true
\* until all attempts have resolved and false afterwards.  For both loaders.
C23_TenChaptersInOrder ==
    /\ ~loading => LoadedInOrder(chapters)
    /\ loading => chapters = <<>>
    /\ ~gqLoading => LoadedInOrder(gqChapters)
    /\ gqLoading => gqChapters = <<>>


\* the comparison the specification asks for, on a typed text and a stored
\* answer text
BlankMatches(typed, stored) ==
    trim(toLowerCase(typed)) = trim(toLowerCase(stored))
\* BossPanel took the answer as correct: next question, or the win (award)
BossAccepted == bossIdx' # bossIdx \/ meta'.xp # meta.xp

\* C24: for fill-in-blank questions, quiz and boss alike, a submitted text
\* is correct if and only if trim(lowercase(submitted)) equals
\* trim(lowercase(stored answerText)), whatever the blanks and the letter
\* case of either.
C24_BlankComparison ==
    [][ /\ (QuizSubmit /\ QuizShown(panel, chapters)
              /\ TopicShown(panel, chapters).quiz.type = "blank"
              /\ quizAnswer.t = "str"
              /\ TopicShown(panel, chapters).quiz.answerText.t = "str")
            => ((quizFeedback' = "ok")
                  <=> BlankMatches(quizAnswer.v,
                                   TopicShown(panel, chapters).quiz.answerText.v))
        /\ (BossSubmit /\ BossQuestionShown # Undef
              /\ BossQuestionShown.type = "blank"
              /\ bossAnswer.t = "str"
              /\ BossQuestionShown.answerText.t = "str")
            => (BossAccepted
                  <=> BlankMatches(bossAnswer.v, BossQuestionShown.answerText.v))
      ]_vars

\* a submission without an answer: null, or the empty text
Missing(a) == a = Null \/ a = Str(<<>>)

\* C25: submitting with a missing, null or empty answer is always evaluated
\* as incorrect and never raises an exception, for every question of either
\* type and every stored answer value: no reward and no advance.
C25_MissingAnswerIncorrect ==
    [][ /\ (QuizSubmit /\ Missing(quizAnswer))
            => (quizFeedback' = "wrong" /\ timers' = timers /\ ~crashed')
        /\ (BossSubmit /\ Missing(bossAnswer))
            => (~BossAccepted /\ done' = done /\ meta'.xp = meta.xp /\ ~crashed')
      ]_vars


\* the open chapter has no boss, or a boss without questions
BossNotConfigured(p, chs) ==
    LET boss == currentChapter(p, chs).boss
    IN  ~Truthy(boss) \/ QuestionCount(boss) = 0

\* C26: when the panel is in BOSS mode for a chapter that has no boss
\* configured, or whose boss has no questions, what the panel displays is
\* the "Boss not configured yet." placeholder.
C26_BossPlaceholder ==
    (mounted /\ ~crashed /\ ChapterPanelShown(panel, chapters)
       /\ panel.mode = "BOSS" /\ BossNotConfigured(panel, chapters))
        => BossPlaceholderShown(panel, chapters, bossIdx)


\* C27: under sequential unlock the set of completed chapters is always a
\* prefix of 0..9 (flags[i] implies flags[j] for all j < i), and a flag
\* that is true never returns to false during the session.
C27_CompletedIsPrefix ==
    /\ [][\A i \in ChapterIdx : FlagAt(done, i) => FlagAt(done', i)]_vars
    /\ [](\A i \in ChapterIdx :
             FlagAt(done, i) => \A j \in 0..(i - 1) : FlagAt(done, j))
\* the first-visit learner completed chapter 0 and has opened chapter 1
C27_Witness ==
    /\ mounted /\ ~crashed
    /\ FlagAt(done, 0) /\ \A k \in 1..9 : ~FlagAt(done, k)
    /\ panel = OpenedPanel(1)
    /\ meta.xp.v >= 220


\* C28: a delayed quiz-correct callback only affects the chapter and topic
\* on which the answer was submitted: fired after the learner opened
\* another chapter (or the same one again), it leaves the panel as it is;
\* and in every state with a chapter of n >= 1 topics open in LESSON or
\* QUIZ mode, topicIdx < n.
C28_CallbackStaysInItsChapter ==
    /\ [][(FireTimer /\ (Head(timers).idx # panel.idx
                          \/ Head(timers).topicIdx # panel.topicIdx
                          \/ panel.mode # "QUIZ"))
             => panel' = panel]_vars
    /\ [](\A n \in 1..3 :
            (mounted /\ ~crashed /\ ChapterPanelShown(panel, chapters)
               /\ panel.mode \in {"LESSON", "QUIZ"}
               /\ Truthy(currentChapter(panel, chapters).topics)
               /\ TopicCount(currentChapter(panel, chapters)) = n)
                => panel.topicIdx < n)


\* the open chapter exists, has at least one topic and a boss with at least
\* one question
Completable(p, chs) ==
    /\ ChapterPanelShown(p, chs)
    /\ Truthy(currentChapter(p, chs).topics)
    /\ TopicCount(currentChapter(p, chs)) >= 1
    /\ Truthy(currentChapter(p, chs).boss)
    /\ QuestionCount(currentChapter(p, chs).boss) >= 1

ValidStored ==
    /\ CanParse(lsProgress) /\ JSONparse(lsProgress).t = "arr"
    /\ Len(JSONparse(lsProgress).v) = 10
    /\ CanParse(lsMeta) /\ JSONparse(lsMeta).t = "obj"
    /\ DOMAIN JSONparse(lsMeta).v = DOMAIN DefaultMeta

\* C30: session start never loses valid persisted progress: if storage
\* holds a valid flags record F and a valid meta record M when the page
\* mounts, then once the mount effects and the re-render have run, flags = F
\* and meta = M in memory and storage again holds F and M, also when the
\* mount effects are executed twice in a row.
C30_HydrationKeepsProgress ==
    [][(~mounted /\ mounted' /\ ~setItemThrows /\ ValidStored)
          => /\ done' = JSONparse(lsProgress).v
             /\ meta' = JSONparse(lsMeta).v
             /\ lsProgress' = lsProgress
             /\ lsMeta' = lsMeta]_vars

=============================================================================
